---------------------------- MODULE Spec2Model ----------------------------
(***************************************************************************)
(* A model of async::WavPlayer (include/async/WavPlayer.h): a four-track   *)
(* PCM mixer driven by an external tick, with the example callback of      *)
(* src/main.cpp.                                                           *)
(*                                                                         *)
(* Representation:                                                         *)
(*   - a float volume v is the integer 100 * v (1.0f is 100);              *)
(*   - a Stream is the record [bytes, tail, fill, pos]: the explicit       *)
(*     leading bytes, followed by `tail` bytes of value `fill`, and the    *)
(*     read position.  play() is always handed a stream of its own;        *)
(*   - a memory block (decode buffer, mix buffer) is a run-length list     *)
(*     <<[v, upto], ...>>: the entries below `upto` and not below the      *)
(*     previous run's `upto` hold v.  Decode buffers are lists over bytes, *)
(*     the mix buffer a list over 16-bit samples;                          *)
(*   - the contents of a fresh malloc block are a nondeterministic choice  *)
(*     from GarbageBytes.                                                  *)
(***************************************************************************)
EXTENDS Integers, Sequences, FiniteSets

\* ----------------------------------------------------------------- constants
MAX_TRACKS == 4

mixBufferSize == 512

\* sizeof(int16_t)
SampleSize == 2

\* headerSize assigned in play() when the header was parsed
WavHeaderSize == 44

\* uint32_t values (dataSize, position, chunkSize) are kept as integers below
\* 2^31, the largest the checker computes with; HalfWord is 2^16
HalfWord == 65536

\* every position from here on stands for "at or beyond 2^31 - 1"
FarPos == ((HalfWord \div 2) - 1) * HalfWord + (HalfWord - 1)

\* the number of values of an int16_t sample
Int16 == 65536

\* nullptr as a callback, as a Stream* and as a buffer
NULL == "nullptr"

NullStream == [null |-> TRUE]

NullBuffer == << >>

TRACK_STARTED == "TRACK_STARTED"
TRACK_STOPPED == "TRACK_STOPPED"
TRACK_PAUSED  == "TRACK_PAUSED"
TRACK_RESUMED == "TRACK_RESUMED"

\* ----------------------------------------------------------------- bounds
\* calls of the public interface in one run
MaxCalls == 5

\* chunks after the prologue of a source handed to the header parser
MaxChunks == 3

Min(a, b) == IF a < b THEN a ELSE b

Max(a, b) == IF a > b THEN a ELSE b

Track == 0 .. (MAX_TRACKS - 1)

\* track numbers handed to the control surface: every slot and both neighbours
TrackArgs == (0 - 1) .. MAX_TRACKS

\* the values a read of a byte that was never written may deliver
GarbageBytes == {0, 255}

\* the content of a byte that was never written: one past the largest byte
Indeterminate == 255 + 1

\* ----------------------------------------------------------------- memory blocks
\* a block of n entries all holding v
Block(n, v) == << [v |-> v, upto |-> n] >>

RECURSIVE RunAt(_, _, _)
\* the value of entry i (0-based) of block b, searching from run k
RunAt(b, i, k) == IF k >= Len(b) \/ i < b[k].upto THEN b[k].v ELSE RunAt(b, i, k + 1)

At(b, i) == RunAt(b, i, 1)

BlockSize(b) == b[Len(b)].upto

\* the run boundaries of a block
Cuts(b) == { b[k].upto : k \in 1 .. Len(b) }

RECURSIVE SortedSeq(_)
SortedSeq(S) ==
    IF S = {} THEN << >>
    ELSE LET m == CHOOSE x \in S : \A y \in S : x <= y
         IN  << m >> \o SortedSeq(S \ {m})

RECURSIVE Merge(_)
\* joins neighbouring runs of equal value
Merge(b) ==
    IF Len(b) <= 1 THEN b
    ELSE LET r == Merge(Tail(b))
         IN  IF b[1].v = r[1].v THEN r ELSE << b[1] >> \o r

\* the block of size n whose entry i is f[i], given the cut points of f
FromCuts(cs, f(_)) ==
    LET s == SortedSeq(cs)
    IN  Merge([k \in 1 .. Len(s) |-> [v |-> f(s[k] - 1), upto |-> s[k]]])


\* ----------------------------------------------------------------- byte sources
\* the Stream interface of async/Stream.h as WavPlayer uses it
StreamLen(s) == Len(s.bytes) + s.tail

\* the byte at offset i (0-based) of the stream's image
ByteAt(s, i) == IF i < Len(s.bytes) THEN s.bytes[i + 1] ELSE s.fill

\* the number of bytes stream->read(buf, n) returns
ReadCount(s, n) == Max(0, Min(n, StreamLen(s) - s.pos))

\* the bytes stream->read(buf, n) delivers
ReadBytes(s, n) == [k \in 1 .. ReadCount(s, n) |-> ByteAt(s, s.pos + k - 1)]

\* the stream after stream->read(buf, n)
AfterRead(s, n) == [s EXCEPT !.pos = @ + ReadCount(s, n)]

\* the stream after stream->seek(p)
AfterSeek(s, p) == [s EXCEPT !.pos = p]

\* the decode buffer after stream->read(buffer, n): the bytes read replace
\* the head of the block, the rest of the block keeps what it held
ReadInto(buf, s, n) ==
    LET c == ReadCount(s, n)
        f(i) == IF i < c THEN ByteAt(s, s.pos + i) ELSE At(buf, i)
        head == { k - s.pos : k \in (s.pos + 1) .. Min(Len(s.bytes), s.pos + c) }
        cs == head \cup (IF c > 0 THEN {c} ELSE {}) \cup { x \in Cuts(buf) : x > c }
    IN  FromCuts(cs, f)

\* "RIFF", "WAVE", "fmt ", "data"
TagRIFF == << 82, 73, 70, 70 >>

TagWAVE == << 87, 65, 86, 69 >>

TagFmt == << 102, 109, 116, 32 >>

TagData == << 100, 97, 116, 97 >>

\* a little-endian 32-bit length
U32(n) == << n % 256, (n \div 256) % 256, (n \div 65536) % 256, (n \div 16777216) % 256 >>

\* stream->position() + *reinterpret_cast<uint32_t*>(chunkHeader + 4), a
\* 32-bit sum that wraps, computed on 16-bit halves; a sum of 2^31 - 1 or
\* more is FarPos (a read there returns nothing, like any read past the end)
SkipTarget(pos, h) ==
    LET lo == (pos % HalfWord) + h[5] + 256 * h[6]
        hi == ((pos \div HalfWord) + h[7] + 256 * h[8] + (lo \div HalfWord)) % HalfWord
    IN  IF 2 * hi >= HalfWord THEN FarPos
        ELSE Min(FarPos, hi * HalfWord + (lo % HalfWord))

\* strncmp(h + off, tag, 4) == 0
TagAt(h, off, tag) == \A k \in 1 .. 4 : h[off + k] = tag[k]

RECURSIVE findData(_, _)
\* findData, had it skipped the "data" chunk like any other
findDataSkipsData(s, seen) ==
    IF s.pos \in seen THEN [ok |-> FALSE, hang |-> TRUE, stream |-> s]
    ELSE IF ReadCount(s, 8) # 8
         THEN [ok |-> FALSE, hang |-> FALSE, stream |-> AfterRead(s, 8)]
    ELSE LET h == ReadBytes(s, 8)
             s1 == AfterRead(s, 8)
             s2 == AfterSeek(s1, SkipTarget(s1.pos, h))
         IN  IF TagAt(h, 0, TagData)
             THEN [ok |-> TRUE, hang |-> FALSE, stream |-> s2]
             ELSE findData(s2, seen \cup {s.pos})

\* the second loop of skipWavHeader; seen: the positions a chunk header was
\* read at (a position read twice means the loop never ends)
findData(s, seen) ==
    IF s.pos \in seen THEN [ok |-> FALSE, hang |-> TRUE, stream |-> s]
    ELSE IF ReadCount(s, 8) # 8
         THEN [ok |-> FALSE, hang |-> FALSE, stream |-> AfterRead(s, 8)]
    ELSE LET h == ReadBytes(s, 8)
             s1 == AfterRead(s, 8)
         IN  IF TagAt(h, 0, TagData)
             THEN [ok |-> TRUE, hang |-> FALSE, stream |-> s1]
             ELSE findData(AfterSeek(s1, SkipTarget(s1.pos, h)), seen \cup {s.pos})

RECURSIVE findFmt(_, _)
\* the first loop of skipWavHeader
findFmt(s, seen) ==
    IF s.pos \in seen THEN [ok |-> FALSE, hang |-> TRUE, stream |-> s]
    ELSE IF ReadCount(s, 8) # 8
         THEN [ok |-> FALSE, hang |-> FALSE, stream |-> AfterRead(s, 8)]
    ELSE LET h == ReadBytes(s, 8)
             s1 == AfterRead(s, 8)
             s2 == AfterSeek(s1, SkipTarget(s1.pos, h))
         IN  IF TagAt(h, 0, TagFmt)
             THEN findData(s2, {})
             ELSE findFmt(s2, seen \cup {s.pos})

\* [ok: the return value, hang: the call does not return, stream: the
\* stream as the call leaves it]
skipWavHeader(s) ==
    IF ReadCount(s, 12) # 12
    THEN [ok |-> FALSE, hang |-> FALSE, stream |-> AfterRead(s, 12)]
    ELSE LET h == ReadBytes(s, 12)
             s1 == AfterRead(s, 12)
         IN  IF ~TagAt(h, 0, TagRIFF) \/ ~TagAt(h, 8, TagWAVE)
             THEN [ok |-> FALSE, hang |-> FALSE, stream |-> s1]
             ELSE findFmt(s1, {})

\* ----------------------------------------------------------------- state
VARIABLES
    tracks,         \* AudioTrack tracks[MAX_TRACKS]
    initialized,    \* bool initialized
    mixBuffer,      \* the block mixBuffer points to
    eventCallback,  \* NULL, "record" (a callback that only notes the event)
                    \* or "replay" (the callback of main.cpp)
    i2s,            \* the I2S driver is installed
    heap,           \* decode-buffer blocks obtained from malloc and not freed
    call,           \* the last call of the public interface: its arguments, its
                    \* result, and the track statuses and `initialized` before it
    events,         \* the callback invocations made by the last call, in order
    written,        \* the i2s_write calls made by the last call
    budget          \* the calls the caller may still make

vars == << tracks, initialized, mixBuffer, eventCallback, i2s, heap,
           call, events, written, budget >>

\* the program state the member functions work on
Machine ==
    [tracks |-> tracks, initialized |-> initialized, mixBuffer |-> mixBuffer,
     eventCallback |-> eventCallback, i2s |-> i2s, heap |-> heap,
     events |-> << >>, written |-> 0]

\* the track as the constructor leaves it
NewTrack ==
    [stream |-> NullStream, isPlaying |-> FALSE, isPaused |-> FALSE, dataSize |-> 0,
     position |-> 0, volume |-> 100, buffer |-> NullBuffer, bufferPos |-> 0,
     parseWavHeader |-> FALSE]

\* new ByteStream(audioHex, sizeof(audioHex)) of main.cpp: raw samples
ExampleStream == [bytes |-> << >>, tail |-> 2 * SampleSize * mixBufferSize, fill |-> 1, pos |-> 0]

isValidTrack(m, trackNum) ==
    trackNum >= 0 /\ trackNum < MAX_TRACKS /\ m.initialized

\* playAssign, had it carried the paused flag over like the volume
playAssignKeepsPause(m, trackNum, stream, parseWavHeader, dataSize, headerSize) ==
    [m EXCEPT !.tracks[trackNum] =
        [stream |-> stream, isPlaying |-> TRUE, isPaused |-> m.tracks[trackNum].isPaused,
         dataSize |-> IF dataSize > headerSize THEN dataSize - headerSize ELSE 0,
         position |-> 0, volume |-> m.tracks[trackNum].volume,
         buffer |-> m.tracks[trackNum].buffer, bufferPos |-> mixBufferSize,
         parseWavHeader |-> parseWavHeader]]

\* the assignment tracks[trackNum] = {...} of play()
playAssign(m, trackNum, stream, parseWavHeader, dataSize, headerSize) ==
    [m EXCEPT !.tracks[trackNum] =
        [stream |-> stream, isPlaying |-> TRUE, isPaused |-> FALSE,
         dataSize |-> IF dataSize > headerSize THEN dataSize - headerSize ELSE 0,
         position |-> 0, volume |-> m.tracks[trackNum].volume,
         buffer |-> m.tracks[trackNum].buffer, bufferPos |-> mixBufferSize,
         parseWavHeader |-> parseWavHeader]]

RECURSIVE notify(_, _, _)

stop(m, trackNum) ==
    IF ~isValidTrack(m, trackNum) THEN m
    ELSE notify([m EXCEPT !.tracks[trackNum].isPlaying = FALSE,
                          !.tracks[trackNum].isPaused = FALSE],
                trackNum, TRACK_STOPPED)

\* play, had it filled the slot before parsing the header
playParsesLate(m, trackNum, stream, parseWavHeader, dataSize) ==
    IF trackNum < 0 \/ trackNum >= MAX_TRACKS \/ ~m.initialized \/ stream = NullStream
    THEN [m |-> m, ret |-> FALSE]
    ELSE LET h == IF parseWavHeader THEN skipWavHeader(stream)
                  ELSE [ok |-> TRUE, hang |-> FALSE, stream |-> stream]
             headerSize == IF parseWavHeader THEN WavHeaderSize ELSE 0
             m1 == playAssign(m, trackNum, h.stream, parseWavHeader, dataSize, headerSize)
         IN  IF ~h.ok THEN [m |-> m1, ret |-> FALSE]
             ELSE [m |-> notify(m1, trackNum, TRACK_STARTED), ret |-> TRUE]

\* [m: the state after the call, ret: its return value]
play(m, trackNum, stream, parseWavHeader, dataSize) ==
    IF trackNum < 0 \/ trackNum >= MAX_TRACKS \/ ~m.initialized \/ stream = NullStream
    THEN [m |-> m, ret |-> FALSE]
    ELSE LET h == IF parseWavHeader THEN skipWavHeader(stream)
                  ELSE [ok |-> TRUE, hang |-> FALSE, stream |-> stream]
             headerSize == IF parseWavHeader THEN WavHeaderSize ELSE 0
         IN  IF ~h.ok THEN [m |-> m, ret |-> FALSE]
             ELSE [m |-> notify(playAssign(m, trackNum, h.stream, parseWavHeader,
                                           dataSize, headerSize),
                                trackNum, TRACK_STARTED),
                   ret |-> TRUE]

\* if (eventCallback) eventCallback(trackNum, event), with the callback's body
notify(m, trackNum, event) ==
    IF m.eventCallback = NULL THEN m
    ELSE LET m1 == [m EXCEPT !.events = Append(@, [track |-> trackNum, event |-> event])]
         IN  IF m.eventCallback = "replay" /\ event = TRACK_STOPPED
             THEN play(m1, 0, ExampleStream, FALSE, 0).m
             ELSE m1

\* pause, had it not tested isPaused
pauseUnguarded(m, trackNum) ==
    IF ~isValidTrack(m, trackNum) THEN m
    ELSE notify([m EXCEPT !.tracks[trackNum].isPaused = TRUE], trackNum, TRACK_PAUSED)

pause(m, trackNum) ==
    IF ~isValidTrack(m, trackNum) \/ m.tracks[trackNum].isPaused THEN m
    ELSE notify([m EXCEPT !.tracks[trackNum].isPaused = TRUE], trackNum, TRACK_PAUSED)

resume(m, trackNum) ==
    IF ~isValidTrack(m, trackNum) \/ ~m.tracks[trackNum].isPaused THEN m
    ELSE notify([m EXCEPT !.tracks[trackNum].isPaused = FALSE], trackNum, TRACK_RESUMED)

isPlaying(m, trackNum) ==
    isValidTrack(m, trackNum) /\ m.tracks[trackNum].isPlaying
        /\ ~m.tracks[trackNum].isPaused

isPaused(m, trackNum) ==
    isValidTrack(m, trackNum) /\ m.tracks[trackNum].isPlaying
        /\ m.tracks[trackNum].isPaused

\* constrain(x, lo, hi) of Arduino.h
constrain(x, lo, hi) == IF x < lo THEN lo ELSE IF x > hi THEN hi ELSE x

\* setVolume, had it stored the value as given
setVolumeUnclamped(m, trackNum, volume) ==
    IF isValidTrack(m, trackNum)
    THEN [m EXCEPT !.tracks[trackNum].volume = volume]
    ELSE m

setVolume(m, trackNum, volume) ==
    IF isValidTrack(m, trackNum)
    THEN [m EXCEPT !.tracks[trackNum].volume = constrain(volume, 0, 100)]
    ELSE m

getVolume(m, trackNum) ==
    IF isValidTrack(m, trackNum) THEN m.tracks[trackNum].volume ELSE 0

\* ----------------------------------------------------------------- mixing
\* the int16_t stored as the bytes lo, hi
SampleOf(lo, hi) ==
    LET u == lo + 256 * hi IN IF 2 * u >= Int16 THEN u - Int16 ELSE u

\* the byte a read of memory holding b delivers
ReadByte(b, garbage) == IF b = Indeterminate THEN garbage ELSE b

\* sample j of a decode buffer
Sample(buf, j, garbage) ==
    SampleOf(ReadByte(At(buf, SampleSize * j), garbage),
             ReadByte(At(buf, SampleSize * j + 1), garbage))

\* n / d rounded toward zero, the float to integer conversion
TruncDiv(n, d) == IF n >= 0 THEN n \div d ELSE 0 - ((0 - n) \div d)

\* the value kept in an int16_t
Wrap16(x) == LET u == x % Int16 IN IF 2 * u >= Int16 THEN u - Int16 ELSE u

\* mixBuffer[i] += sample * volume
MixSample(acc, sample, volume) == Wrap16(TruncDiv(acc * 100 + sample * volume, 100))

\* the number of samples the mix loop of mixTrack consumes
MixCount(bufferPos) == Max(0, Min(mixBufferSize, mixBufferSize - bufferPos))

\* the mix buffer after the mix loop of mixTrack
mixInto(mix, buf, bufferPos, volume, garbage) ==
    LET n == MixCount(bufferPos)
        f(i) == IF i < n THEN MixSample(At(mix, i), Sample(buf, bufferPos + i, garbage), volume)
                ELSE At(mix, i)
        bc == { c \div SampleSize : c \in Cuts(buf) }
                 \cup { (c + SampleSize - 1) \div SampleSize : c \in Cuts(buf) }
        cs == Cuts(mix) \cup { c - bufferPos : c \in { x \in bc : x > bufferPos /\ x - bufferPos <= n } }
                 \cup (IF n > 0 THEN {n} ELSE {})
    IN  FromCuts(cs, f)

\* mixTrack, had it asked for a whole sample more than the budget leaves
mixTrackRoundsUp(m, trackNum, garbage) ==
    LET track == m.tracks[trackNum]
        refill == track.bufferPos >= mixBufferSize
        bounded == track.dataSize > 0
        \* dataSize - position is unsigned: below zero it wraps to a value
        \* of 2^31 or more, and the minimum is mixBufferSize
        bytesRemaining == track.dataSize - track.position
        samplesToRead == IF bounded /\ bytesRemaining >= 0
                         THEN Min(mixBufferSize, (bytesRemaining + SampleSize - 1) \div SampleSize)
                         ELSE mixBufferSize
        bytesRead == ReadCount(track.stream, samplesToRead * SampleSize)
        read == [m EXCEPT !.tracks[trackNum].buffer =
                              ReadInto(track.buffer, track.stream, samplesToRead * SampleSize),
                          !.tracks[trackNum].stream =
                              AfterRead(track.stream, samplesToRead * SampleSize),
                          !.tracks[trackNum].bufferPos = 0,
                          !.tracks[trackNum].position = @ + bytesRead]
        filled == IF refill THEN read ELSE m
        t == filled.tracks[trackNum]
    IN  IF refill /\ bounded /\ samplesToRead = 0
        THEN [m |-> stop(m, trackNum), ret |-> FALSE]
        ELSE IF refill /\ bytesRead = 0
        THEN [m |-> stop(read, trackNum), ret |-> FALSE]
        ELSE [m |-> [filled EXCEPT
                        !.mixBuffer = mixInto(@, t.buffer, t.bufferPos, t.volume, garbage),
                        !.tracks[trackNum].bufferPos = @ + MixCount(t.bufferPos)],
              ret |-> TRUE]

\* mixTrack, had it asked for a full buffer whatever the budget leaves
mixTrackIgnoresBudget(m, trackNum, garbage) ==
    LET track == m.tracks[trackNum]
        refill == track.bufferPos >= mixBufferSize
        samplesToRead == mixBufferSize
        bytesRead == ReadCount(track.stream, samplesToRead * SampleSize)
        read == [m EXCEPT !.tracks[trackNum].buffer =
                              ReadInto(track.buffer, track.stream, samplesToRead * SampleSize),
                          !.tracks[trackNum].stream =
                              AfterRead(track.stream, samplesToRead * SampleSize),
                          !.tracks[trackNum].bufferPos = 0,
                          !.tracks[trackNum].position = @ + bytesRead]
        filled == IF refill THEN read ELSE m
        t == filled.tracks[trackNum]
    IN  IF refill /\ bytesRead = 0
        THEN [m |-> stop(read, trackNum), ret |-> FALSE]
        ELSE [m |-> [filled EXCEPT
                        !.mixBuffer = mixInto(@, t.buffer, t.bufferPos, t.volume, garbage),
                        !.tracks[trackNum].bufferPos = @ + MixCount(t.bufferPos)],
              ret |-> TRUE]

\* mixTrack, had it kept a track whose source is exhausted
mixTrackNeverStops(m, trackNum, garbage) ==
    LET track == m.tracks[trackNum]
        refill == track.bufferPos >= mixBufferSize
        bounded == track.dataSize > 0
        bytesRemaining == track.dataSize - track.position
        samplesToRead == IF bounded /\ bytesRemaining >= 0
                         THEN Min(mixBufferSize, bytesRemaining \div SampleSize)
                         ELSE mixBufferSize
        bytesRead == ReadCount(track.stream, samplesToRead * SampleSize)
        read == [m EXCEPT !.tracks[trackNum].buffer =
                              ReadInto(track.buffer, track.stream, samplesToRead * SampleSize),
                          !.tracks[trackNum].stream =
                              AfterRead(track.stream, samplesToRead * SampleSize),
                          !.tracks[trackNum].bufferPos = 0,
                          !.tracks[trackNum].position = @ + bytesRead]
        filled == IF refill THEN read ELSE m
        t == filled.tracks[trackNum]
    IN  [m |-> [filled EXCEPT
                   !.mixBuffer = mixInto(@, t.buffer, t.bufferPos, t.volume, garbage),
                   !.tracks[trackNum].bufferPos = @ + MixCount(t.bufferPos)],
         ret |-> TRUE]

\* [m: the state after the call, ret: its return value]; garbage: what the
\* bytes of the decode buffer that were never written read as
mixTrack(m, trackNum, garbage) ==
    LET track == m.tracks[trackNum]
        refill == track.bufferPos >= mixBufferSize
        bounded == track.dataSize > 0
        \* dataSize - position is unsigned: below zero it wraps to a value
        \* of 2^31 or more, and the minimum is mixBufferSize
        bytesRemaining == track.dataSize - track.position
        samplesToRead == IF bounded /\ bytesRemaining >= 0
                         THEN Min(mixBufferSize, bytesRemaining \div SampleSize)
                         ELSE mixBufferSize
        bytesRead == ReadCount(track.stream, samplesToRead * SampleSize)
        read == [m EXCEPT !.tracks[trackNum].buffer =
                              ReadInto(track.buffer, track.stream, samplesToRead * SampleSize),
                          !.tracks[trackNum].stream =
                              AfterRead(track.stream, samplesToRead * SampleSize),
                          !.tracks[trackNum].bufferPos = 0,
                          !.tracks[trackNum].position = @ + bytesRead]
        filled == IF refill THEN read ELSE m
        t == filled.tracks[trackNum]
    IN  IF refill /\ bounded /\ samplesToRead = 0
        THEN [m |-> stop(m, trackNum), ret |-> FALSE]
        ELSE IF refill /\ bytesRead = 0
        THEN [m |-> stop(read, trackNum), ret |-> FALSE]
        ELSE [m |-> [filled EXCEPT
                        !.mixBuffer = mixInto(@, t.buffer, t.bufferPos, t.volume, garbage),
                        !.tracks[trackNum].bufferPos = @ + MixCount(t.bufferPos)],
              ret |-> TRUE]

RECURSIVE tickLoop(_, _, _, _)
\* tickLoop, had it mixed paused tracks too
tickLoopMixesPaused(m, i, anyActive, garbage) ==
    IF i >= MAX_TRACKS THEN [m |-> m, anyActive |-> anyActive]
    ELSE IF m.tracks[i].isPlaying
         THEN LET r == mixTrack(m, i, garbage)
              IN  tickLoop(r.m, i + 1, anyActive \/ r.ret, garbage)
         ELSE tickLoop(m, i + 1, anyActive, garbage)

\* the loop of tick() from track i on; [m, anyActive]
tickLoop(m, i, anyActive, garbage) ==
    IF i >= MAX_TRACKS THEN [m |-> m, anyActive |-> anyActive]
    ELSE IF m.tracks[i].isPlaying /\ ~m.tracks[i].isPaused
         THEN LET r == mixTrack(m, i, garbage)
              IN  tickLoop(r.m, i + 1, anyActive \/ r.ret, garbage)
         ELSE tickLoop(m, i + 1, anyActive, garbage)

\* tick, had it not tested initialized
tickUnguarded(m, garbage) ==
    LET r == tickLoop([m EXCEPT !.mixBuffer = Block(mixBufferSize, 0)], 0, FALSE, garbage)
    IN  [m |-> IF r.anyActive THEN [r.m EXCEPT !.written = @ + 1] ELSE r.m,
         ret |-> TRUE]

\* tick, had it written the mix buffer whenever a track was playing
tickWritesForStopped(m, garbage) ==
    IF ~m.initialized THEN [m |-> m, ret |-> FALSE]
    ELSE LET r == tickLoop([m EXCEPT !.mixBuffer = Block(mixBufferSize, 0)], 0, FALSE,
                           garbage)
             any == \E t \in Track : m.tracks[t].isPlaying /\ ~m.tracks[t].isPaused
         IN  [m |-> IF any THEN [r.m EXCEPT !.written = @ + 1] ELSE r.m,
              ret |-> TRUE]

\* tick, had it not zeroed the mix buffer
tickKeepsMix(m, garbage) ==
    IF ~m.initialized THEN [m |-> m, ret |-> FALSE]
    ELSE LET r == tickLoop(m, 0, FALSE, garbage)
         IN  [m |-> IF r.anyActive THEN [r.m EXCEPT !.written = @ + 1] ELSE r.m,
              ret |-> TRUE]

\* [m: the state after the call, ret: its return value]
tick(m, garbage) ==
    IF ~m.initialized THEN [m |-> m, ret |-> FALSE]
    ELSE LET r == tickLoop([m EXCEPT !.mixBuffer = Block(mixBufferSize, 0)], 0, FALSE,
                           garbage)
         IN  [m |-> IF r.anyActive THEN [r.m EXCEPT !.written = @ + 1] ELSE r.m,
              ret |-> TRUE]

\* ----------------------------------------------------------------- lifecycle
RECURSIVE cancelLoop(_, _)
\* the loop of cancel() from track i on
cancelLoop(m, i) ==
    IF i >= MAX_TRACKS THEN m
    ELSE LET m1 == stop(m, i)
             freed == IF m1.tracks[i].buffer = NullBuffer THEN 0 ELSE 1
         IN  cancelLoop([m1 EXCEPT !.tracks[i].buffer = NullBuffer, !.heap = @ - freed], i + 1)

\* [m: the state after the call, ret: its return value]
cancel(m) ==
    IF ~m.initialized THEN [m |-> m, ret |-> FALSE]
    ELSE [m |-> [cancelLoop(m, 0) EXCEPT !.i2s = FALSE, !.initialized = FALSE],
          ret |-> TRUE]

RECURSIVE allocLoop(_, _, _)
\* the allocation loop of start() from track i on; the malloc for track
\* failAt returns nullptr (failAt = MAX_TRACKS: none does)
allocLoop(m, i, failAt) ==
    IF i >= MAX_TRACKS THEN [m |-> [m EXCEPT !.initialized = TRUE], ret |-> TRUE]
    ELSE IF i = failAt
         THEN [m |-> cancel([m EXCEPT !.tracks[i].buffer = NullBuffer]).m, ret |-> FALSE]
         ELSE allocLoop([m EXCEPT !.tracks[i].buffer =
                                      Block(SampleSize * mixBufferSize, Indeterminate),
                                  !.heap = @ + 1],
                        i + 1, failAt)

\* [m: the state after the call, ret: its return value]; installOk, setPinOk:
\* i2s_driver_install and i2s_set_pin return ESP_OK
start(m, installOk, setPinOk, failAt) ==
    IF m.initialized THEN [m |-> m, ret |-> TRUE]
    ELSE IF ~installOk THEN [m |-> m, ret |-> FALSE]
    ELSE IF ~setPinOk THEN [m |-> [m EXCEPT !.i2s = FALSE], ret |-> FALSE]
    ELSE allocLoop([m EXCEPT !.i2s = TRUE], 0, failAt)

\* ----------------------------------------------------------------- inputs
\* n bytes of raw samples
RawStream(n) == [bytes |-> << >>, tail |-> n, fill |-> 1, pos |-> 0]

\* the 44-byte header of a WAV file holding n bytes of samples
WavHeader(n) ==
    TagRIFF \o U32(36 + n) \o TagWAVE \o TagFmt \o U32(16) \o [k \in 1 .. 16 |-> 0]
        \o TagData \o U32(n)

WavStream(n) == [bytes |-> WavHeader(n), tail |-> n, fill |-> 1, pos |-> 0]

\* "RIFF" <size> "WAVX"
BadWavStream == [bytes |-> TagRIFF \o U32(36) \o << 87, 65, 86, 88 >>, tail |-> 16, fill |-> 1, pos |-> 0]

BufferBytes == SampleSize * mixBufferSize

\* the arguments handed to play(): << stream, parseWavHeader, dataSize >>
PlayArgs ==
    { << NullStream, FALSE, 0 >>,
      << RawStream(BufferBytes + 8), FALSE, 0 >>,
      << RawStream(BufferBytes + 8), FALSE, 3 >>,
      << RawStream(BufferBytes + 8), FALSE, BufferBytes + 6 >>,
      << RawStream(BufferBytes + 8), TRUE, 0 >>,
      << WavStream(BufferBytes + 8), TRUE, 0 >>,
      << WavStream(BufferBytes + 8), TRUE, WavHeaderSize >>,
      << WavStream(BufferBytes + 8), TRUE, WavHeaderSize + BufferBytes + 6 >>,
      << BadWavStream, TRUE, 0 >> }

\* the volume arguments handed to setVolume(), in hundredths
VolumeArgs == { 0 - 500, 0, 50, 100, 500 }

Callbacks == { NULL, "record", "replay" }

\* ----------------------------------------------------------------- actions
\* the status of a track as isPlaying() and isPaused() report it
Status(m, trackNum) ==
    IF isPlaying(m, trackNum) THEN "Playing"
    ELSE IF isPaused(m, trackNum) THEN "Paused"
    ELSE "Stopped"

Bool(b) == IF b THEN "true" ELSE "false"

\* the two program states agree on every member of the player
Same(m1, m2) ==
    /\ m1.tracks = m2.tracks
    /\ m1.initialized = m2.initialized
    /\ m1.mixBuffer = m2.mixBuffer
    /\ m1.eventCallback = m2.eventCallback
    /\ m1.i2s = m2.i2s
    /\ m1.heap = m2.heap

\* The callers: the number of calls of each kind a caller makes at most.
Caller(lifecycle, onEvents, plays, controls, volumes, ticks) ==
    [lifecycle |-> lifecycle, onEvents |-> onEvents, plays |-> plays,
     controls |-> controls, volumes |-> volumes, ticks |-> ticks]

Callers ==
    { Caller(1, 1, 2, 2, 0, 0),
      Caller(1, 1, 1, 1, 0, 3),
      Caller(3, 1, 1, 0, 0, 1),
      Caller(2, 0, 1, 0, 2, 1),
      Caller(1, 0, 2, 0, 1, 2) }

\* A run makes at most MaxCalls calls, of each kind no more than its caller
\* makes, and ends with the first call that leaves the player as it found
\* it: the calls that could follow such a call are the calls that could have
\* been made in its place.
Allowed(kind) == ~budget.idle /\ budget.calls < MaxCalls /\ budget.left[kind] > 0

\* the arguments of a call; a call sets the ones it takes
NoArgs ==
    [stream |-> NullStream, parseWavHeader |-> FALSE, dataSize |-> 0, volume |-> 0,
     installOk |-> TRUE, setPinOk |-> TRUE, failAt |-> MAX_TRACKS, callback |-> NULL]

\* the state after a call: m is the program state it leaves
Return(m, op, trackNum, args, ret, kind) ==
    /\ tracks' = m.tracks
    /\ initialized' = m.initialized
    /\ mixBuffer' = m.mixBuffer
    /\ eventCallback' = m.eventCallback
    /\ i2s' = m.i2s
    /\ heap' = m.heap
    /\ events' = m.events
    /\ written' = m.written
    /\ call' = [op |-> op, track |-> trackNum, args |-> args, ret |-> ret,
                before |-> [t \in Track |-> Status(Machine, t)],
                started |-> initialized]
    /\ budget' = [left |-> [budget.left EXCEPT ![kind] = @ - 1],
                  calls |-> budget.calls + 1, idle |-> Same(m, Machine)]

Init ==
    /\ tracks = [t \in Track |-> NewTrack]
    /\ initialized = FALSE
    /\ mixBuffer = Block(mixBufferSize, Indeterminate)
    /\ eventCallback = NULL
    /\ i2s = FALSE
    /\ heap = 0
    /\ call = [op |-> "WavPlayer", track |-> 0 - 1, args |-> NoArgs, ret |-> "void",
               before |-> [t \in Track |-> "Stopped"], started |-> FALSE]
    /\ events = << >>
    /\ written = 0
    /\ budget \in { [left |-> c, calls |-> 0, idle |-> FALSE] : c \in Callers }

Start ==
    /\ Allowed("lifecycle")
    /\ \E installOk \in BOOLEAN, setPinOk \in BOOLEAN, failAt \in 0 .. MAX_TRACKS :
          LET r == start(Machine, installOk, setPinOk, failAt)
          IN  Return(r.m, "start", 0 - 1,
                     [NoArgs EXCEPT !.installOk = installOk, !.setPinOk = setPinOk,
                                    !.failAt = failAt],
                     Bool(r.ret), "lifecycle")

Cancel ==
    /\ Allowed("lifecycle")
    /\ LET r == cancel(Machine)
       IN  Return(r.m, "cancel", 0 - 1, NoArgs, Bool(r.ret), "lifecycle")

Play ==
    /\ Allowed("plays")
    /\ \E trackNum \in TrackArgs, a \in PlayArgs :
          LET r == play(Machine, trackNum, a[1], a[2], a[3])
          IN  Return(r.m, "play", trackNum,
                     [NoArgs EXCEPT !.stream = a[1], !.parseWavHeader = a[2],
                                    !.dataSize = a[3]],
                     Bool(r.ret), "plays")

OnEvent ==
    /\ Allowed("onEvents")
    /\ \E callback \in Callbacks :
          Return([Machine EXCEPT !.eventCallback = callback], "onEvent", 0 - 1,
                 [NoArgs EXCEPT !.callback = callback], "void", "onEvents")

Pause ==
    /\ Allowed("controls")
    /\ \E trackNum \in TrackArgs :
          Return(pause(Machine, trackNum), "pause", trackNum, NoArgs, "void", "controls")

Resume ==
    /\ Allowed("controls")
    /\ \E trackNum \in TrackArgs :
          Return(resume(Machine, trackNum), "resume", trackNum, NoArgs, "void", "controls")

Stop ==
    /\ Allowed("controls")
    /\ \E trackNum \in TrackArgs :
          Return(stop(Machine, trackNum), "stop", trackNum, NoArgs, "void", "controls")

SetVolume ==
    /\ Allowed("volumes")
    /\ \E trackNum \in TrackArgs, volume \in VolumeArgs :
          Return(setVolume(Machine, trackNum, volume), "setVolume", trackNum,
                 [NoArgs EXCEPT !.volume = volume], "void", "volumes")

Tick ==
    /\ Allowed("ticks")
    /\ \E garbage \in GarbageBytes :
          LET r == tick(Machine, garbage)
          IN  Return(r.m, "tick", 0 - 1, NoArgs, Bool(r.ret), "ticks")

Next ==
    \/ Start
    \/ Cancel
    \/ Play
    \/ OnEvent
    \/ Pause
    \/ Resume
    \/ Stop
    \/ SetVolume
    \/ Tick

Spec == Init /\ [][Next]_vars

\* ----------------------------------------------------------------- the header parser alone
\* Sources for skipWavHeader: a prologue, up to MaxChunks chunks and a tail.
\* A chunk is [tag, size: the four bytes of its declared length, body: the
\* number of bytes that follow its header in the source]; the bytes of a
\* body are zero.
TagLIST == << 76, 73, 83, 84 >>

ChunkTags == { TagFmt, TagData, TagLIST }

\* declared lengths with the body they come with: exact (0, 3, 16), past
\* the end of the source (1000), and 2^32 - 8, 2^32 - 16 and 2^31, which
\* take position + length beyond 32 bits or beyond every source
ChunkShapes ==
    { [size |-> U32(0), body |-> 0],
      [size |-> U32(3), body |-> 3],
      [size |-> U32(16), body |-> 16],
      [size |-> U32(1000), body |-> 0],
      [size |-> << 248, 255, 255, 255 >>, body |-> 0],
      [size |-> << 240, 255, 255, 255 >>, body |-> 0],
      [size |-> << 0, 0, 0, 128 >>, body |-> 0] }

Chunks == { [tag |-> t, size |-> c.size, body |-> c.body] : t \in ChunkTags, c \in ChunkShapes }

\* "RIFF" <size> "WAVE", the same with a wrong first or third tag, and a
\* source that ends after eight bytes
Prologues ==
    { TagRIFF \o U32(36) \o TagWAVE,
      << 82, 73, 70, 88 >> \o U32(36) \o TagWAVE,
      TagRIFF \o U32(36) \o << 87, 65, 86, 88 >>,
      TagRIFF \o U32(36) }

\* what follows the last chunk: nothing, or the first bytes of a chunk header
Tails == { << >>, TagData, TagFmt \o << 16, 0, 0 >> }

ChunkBytes(c) == c.tag \o c.size \o [k \in 1 .. c.body |-> 0]

RECURSIVE ChunksBytes(_)
ChunksBytes(cs) == IF cs = << >> THEN << >> ELSE ChunkBytes(Head(cs)) \o ChunksBytes(Tail(cs))

\* the source made of a prologue, chunks and a tail, positioned at offset 0
Source(prologue, chunks, tail) ==
    [bytes |-> prologue \o ChunksBytes(chunks) \o tail, tail |-> 0, fill |-> 0, pos |-> 0]

\* the result of the call as the caller sees it
Outcome(r) == IF r.hang THEN "never returns" ELSE Bool(r.ret)

ParseInit ==
    /\ tracks = [t \in Track |-> NewTrack]
    /\ initialized = FALSE
    /\ mixBuffer = Block(mixBufferSize, Indeterminate)
    /\ eventCallback = NULL
    /\ i2s = FALSE
    /\ heap = 0
    /\ events = << >>
    /\ written = 0
    /\ budget = [left |-> Caller(0, 0, 0, 0, 0, 0), calls |-> 0, idle |-> FALSE]
    /\ \E prologue \in Prologues :
          call = [op |-> "source", prologue |-> prologue, chunks |-> << >>, tail |-> << >>,
                  ret |-> "void", stream |-> Source(prologue, << >>, << >>)]

\* the caller appends a chunk to the source
AddChunk ==
    /\ call.op = "source"
    /\ call.tail = << >>
    /\ Len(call.chunks) < MaxChunks
    /\ \E c \in Chunks :
          call' = [call EXCEPT !.chunks = Append(@, c),
                               !.stream = Source(call.prologue, Append(call.chunks, c), << >>)]
    /\ UNCHANGED << tracks, initialized, mixBuffer, eventCallback, i2s, heap,
                    events, written, budget >>

\* the caller ends the source inside a chunk header
AddTail ==
    /\ call.op = "source"
    /\ call.tail = << >>
    /\ \E tail \in Tails \ { << >> } :
          call' = [call EXCEPT !.tail = tail,
                               !.stream = Source(call.prologue, call.chunks, tail)]
    /\ UNCHANGED << tracks, initialized, mixBuffer, eventCallback, i2s, heap,
                    events, written, budget >>

\* skipWavHeader(stream) on the source
Parse ==
    /\ call.op = "source"
    /\ LET r == skipWavHeader(call.stream)
       IN  call' = [call EXCEPT !.op = "skipWavHeader",
                                !.ret = Outcome([hang |-> r.hang, ret |-> r.ok]),
                                !.stream = r.stream]
    /\ UNCHANGED << tracks, initialized, mixBuffer, eventCallback, i2s, heap,
                    events, written, budget >>

ParseNext ==
    \/ AddChunk
    \/ AddTail
    \/ Parse

ParseSpec == ParseInit /\ [][ParseNext]_vars

\* ----------------------------------------------------------------- the engine under repeated ticks
\* A started engine on which play() has been called for tracks 0 and 2, then
\* ticked without end by its scheduler while the caller pauses and resumes
\* the two tracks.
LiveTracks == { 0, 2 }

\* the player as the constructor leaves it
Constructed ==
    [tracks |-> [t \in Track |-> NewTrack], initialized |-> FALSE,
     mixBuffer |-> Block(mixBufferSize, Indeterminate), eventCallback |-> NULL,
     i2s |-> FALSE, heap |-> 0, events |-> << >>, written |-> 0]

\* start(); onEvent(callback); play(0, a); play(2, b)
Playing(callback, a, b) ==
    LET m0 == [start(Constructed, TRUE, TRUE, MAX_TRACKS).m EXCEPT !.eventCallback = callback]
        m1 == [play(m0, 0, a[1], a[2], a[3]).m EXCEPT !.events = << >>]
    IN  [play(m1, 2, b[1], b[2], b[3]).m EXCEPT !.events = << >>]

LiveInit ==
    /\ \E callback \in Callbacks, a \in PlayArgs, b \in PlayArgs :
          LET m == Playing(callback, a, b)
          IN  /\ tracks = m.tracks
              /\ initialized = m.initialized
              /\ mixBuffer = m.mixBuffer
              /\ eventCallback = m.eventCallback
              /\ i2s = m.i2s
              /\ heap = m.heap
    /\ events = << >>
    /\ written = 0
    /\ call = [op |-> "play", track |-> 2, args |-> NoArgs, ret |-> "void",
               before |-> [t \in Track |-> "Stopped"], started |-> TRUE]
    /\ budget = [left |-> Caller(0, 0, 0, 0, 0, 0), calls |-> 0, idle |-> FALSE]

\* the state after a call of an engine that is ticked without end; the ticks
\* are numbered modulo 2, which tells a tick that changes nothing in the
\* player from no tick at all
LiveReturn(m, op, trackNum, ret, ticks) ==
    /\ tracks' = m.tracks
    /\ initialized' = m.initialized
    /\ mixBuffer' = m.mixBuffer
    /\ eventCallback' = m.eventCallback
    /\ i2s' = m.i2s
    /\ heap' = m.heap
    /\ events' = m.events
    /\ written' = m.written
    /\ call' = [op |-> op, track |-> trackNum, args |-> NoArgs, ret |-> ret,
                before |-> [t \in Track |-> Status(Machine, t)],
                started |-> initialized]
    /\ budget' = [budget EXCEPT !.calls = (@ + ticks) % 2]

LiveTick ==
    \E garbage \in GarbageBytes :
        LET r == tick(Machine, garbage)
        IN  LiveReturn(r.m, "tick", 0 - 1, Bool(r.ret), 1)

LivePause ==
    \E trackNum \in LiveTracks :
        /\ isPlaying(Machine, trackNum)
        /\ LiveReturn(pause(Machine, trackNum), "pause", trackNum, "void", 0)

LiveResume ==
    \E trackNum \in LiveTracks :
        /\ isPaused(Machine, trackNum)
        /\ LiveReturn(resume(Machine, trackNum), "resume", trackNum, "void", 0)

LiveNext ==
    \/ LiveTick
    \/ LivePause
    \/ LiveResume

\* the step is a call of tick(): it is the only call that numbers a tick
Ticked == budget' = [budget EXCEPT !.calls = (@ + 1) % 2]

\* The scheduler calls tick() again and again: tick() can be called in every
\* state (LiveTick has no guard), so a call of it is always possible, and
\* weak fairness of the tick steps says they are made without end.
LiveSpec == LiveInit /\ [][LiveNext]_vars /\ WF_budget(Ticked)

\* ----------------------------------------------------------------- properties
Ev(trackNum, event) == [track |-> trackNum, event |-> event]

\* the events of the last call that name the track
EventsOf(trackNum) == SelectSeq(events, LAMBDA e : e.track = trackNum)

\* the last call was op on a slot of the array
Called(op) == call.op = op /\ call.track \in Track

\* C1: on a started engine, whatever the slot's status was, a play() that
\* returns true leaves the track playing and not paused, and the callback, if
\* one is registered, has been invoked exactly once, with TRACK_STARTED for
\* that track.
C1_PlayStartsTrack ==
    (call.op = "play" /\ call.ret = "true") =>
        /\ call.track \in Track
        /\ call.started
        /\ isPlaying(Machine, call.track)
        /\ ~isPaused(Machine, call.track)
        /\ eventCallback # NULL => events = << Ev(call.track, TRACK_STARTED) >>
        /\ eventCallback = NULL => events = << >>

\* play() has replaced a paused track
C1_Witness ==
    /\ Called("play")
    /\ call.ret = "true"
    /\ call.before[call.track] = "Paused"
    /\ isPlaying(Machine, call.track)
    /\ events = << Ev(call.track, TRACK_STARTED) >>

\* C2 (as claimed): with a callback registered that only notes the events,
\* pause(), resume() and stop() invoke it if and only if the call changed the
\* track's status, and then once.
C2_EventIffStatusChanges ==
    (call.op \in {"pause", "resume", "stop"} /\ call.track \in Track
        /\ eventCallback = "record") =>
        IF Status(Machine, call.track) # call.before[call.track]
        THEN Len(events) = 1
        ELSE events = << >>

\* C3: pause() on a playing track sets its paused flag and nothing else and
\* emits TRACK_PAUSED alone; resume() on a paused track clears the flag and
\* nothing else and emits TRACK_RESUMED alone, so that the pair returns the
\* track to Playing; pause() on a paused track changes nothing and emits
\* nothing.
C3_PauseResume ==
    [][ \A t \in Track :
          /\ (call'.op = "pause" /\ call'.track = t /\ isPlaying(Machine, t)) =>
                /\ tracks' = [tracks EXCEPT ![t].isPaused = TRUE]
                /\ isPaused(Machine, t)'
                /\ events' = IF eventCallback = NULL THEN << >>
                             ELSE << Ev(t, TRACK_PAUSED) >>
          /\ (call'.op = "resume" /\ call'.track = t /\ isPaused(Machine, t)) =>
                /\ tracks' = [tracks EXCEPT ![t].isPaused = FALSE]
                /\ isPlaying(Machine, t)'
                /\ events' = IF eventCallback = NULL THEN << >>
                             ELSE << Ev(t, TRACK_RESUMED) >>
          /\ (call'.op = "pause" /\ call'.track = t /\ isPaused(Machine, t)) =>
                /\ tracks' = tracks
                /\ events' = << >>
    ]_vars

\* resume() has returned a paused track to Playing
C3_Witness ==
    /\ Called("resume")
    /\ call.before[call.track] = "Paused"
    /\ isPlaying(Machine, call.track)
    /\ events = << Ev(call.track, TRACK_RESUMED) >>

\* a track played without header parsing, with a byte budget its source can
\* supply
BoundedRaw(track) ==
    /\ track.stream # NullStream
    /\ track.dataSize > 0
    /\ ~track.parseWavHeader
    /\ StreamLen(track.stream) >= track.dataSize

\* the whole samples of a byte budget, in bytes
WholeSamples(n) == SampleSize * (n \div SampleSize)

\* the last call was a tick() that stopped the track
StoppedByTick(t) ==
    call.op = "tick" /\ call.before[t] = "Playing" /\ ~tracks[t].isPlaying

\* C4 (as claimed): the tick that stops a track played with a byte budget N
\* finds exactly N bytes read from the source, and emits one TRACK_STOPPED.
C4_StopsAfterDataSizeBytes ==
    \A t \in Track :
        (StoppedByTick(t) /\ BoundedRaw(tracks[t])) =>
            /\ tracks[t].stream.pos = tracks[t].dataSize
            /\ eventCallback # NULL => EventsOf(t) = << Ev(t, TRACK_STOPPED) >>

\* C4 (amended): with a callback that does not call into the player, a track
\* played with a byte budget N has read position = pos bytes of its source,
\* never more than the whole samples of N; a tick reads the next buffer of
\* them, at most up to that limit, and emits nothing for the track; the tick
\* that finds the limit reached reads nothing, stops the track and emits
\* TRACK_STOPPED once.
C4_StopsAfterWholeSamples ==
    [][ \A t \in Track :
          (call'.op = "tick" /\ eventCallback # "replay" /\ isPlaying(Machine, t)
              /\ BoundedRaw(tracks[t])) =>
              LET limit == WholeSamples(tracks[t].dataSize)
                  p == tracks[t].position
              IN  /\ tracks[t].stream.pos = p
                  /\ p <= limit
                  /\ IF p = limit
                     THEN /\ ~tracks'[t].isPlaying
                          /\ tracks'[t].stream.pos = limit
                          /\ tracks'[t].position = limit
                          /\ eventCallback # NULL =>
                                EventsOf(t)' = << Ev(t, TRACK_STOPPED) >>
                     ELSE /\ isPlaying(Machine, t)'
                          /\ tracks'[t].position = Min(p + BufferBytes, limit)
                          /\ tracks'[t].stream.pos = tracks'[t].position
                          /\ EventsOf(t)' = << >>
    ]_vars

\* a tick has stopped a track of odd budget after the whole samples of it
C4_Witness ==
    \E t \in Track :
        /\ StoppedByTick(t)
        /\ BoundedRaw(tracks[t])
        /\ tracks[t].dataSize % SampleSize = 1
        /\ tracks[t].stream.pos = tracks[t].dataSize - 1
        /\ EventsOf(t) = << Ev(t, TRACK_STOPPED) >>

\* the volume argument clamped to [0.0, 1.0], in hundredths
Clamped(volume) == IF volume < 0 THEN 0 ELSE IF volume > 100 THEN 100 ELSE volume

\* C5 (as claimed): at any point, setVolume(t, v) on a slot of the array is
\* followed by getVolume(t) = v clamped.
C5_VolumeReadsBackClamped ==
    Called("setVolume") => getVolume(Machine, call.track) = Clamped(call.args.volume)

\* C5 (amended): on a started engine setVolume(t, v) is followed by
\* getVolume(t) = v clamped; on an engine that is not started setVolume
\* stores nothing and getVolume returns 0.0; after every call the stored
\* volume of every track is within [0.0, 1.0] and getVolume of an index
\* outside the array returns 0.0.
C5_VolumeClamped ==
    [][ /\ \A t \in Track :
              (call'.op = "setVolume" /\ call'.track = t) =>
                  IF initialized
                  THEN /\ getVolume(Machine, t)' = Clamped(call'.args.volume)
                       /\ tracks' = [tracks EXCEPT ![t].volume = Clamped(call'.args.volume)]
                  ELSE /\ getVolume(Machine, t)' = 0
                       /\ tracks' = tracks
        /\ \A t \in Track : tracks'[t].volume >= 0 /\ tracks'[t].volume <= 100
        /\ \A t \in TrackArgs \ Track : getVolume(Machine, t)' = 0
    ]_vars

\* setVolume above the range has been clamped on a started engine
C5_Witness ==
    /\ Called("setVolume")
    /\ initialized
    /\ call.args.volume > 100
    /\ call.before[call.track] = "Playing"
    /\ getVolume(Machine, call.track) = 100

\* the members of the player other than the tracks are as they were
RestUnchanged == UNCHANGED << initialized, mixBuffer, eventCallback, i2s, heap >>

\* C6: play() returns false exactly when the track index is out of range,
\* the engine is not started, the source is null, or header parsing was
\* requested and failed; it then invokes no callback and leaves every field
\* of every track, and every other member, as it was.
C6_RejectedPlayChangesNothing ==
    [][ call'.op = "play" =>
          LET a == call'.args
              rejected == \/ call'.track \notin Track
                          \/ ~initialized
                          \/ a.stream = NullStream
                          \/ (a.parseWavHeader /\ ~skipWavHeader(a.stream).ok)
          IN  /\ rejected <=> call'.ret = "false"
              /\ call'.ret = "false" =>
                    /\ tracks' = tracks
                    /\ RestUnchanged
                    /\ events' = << >>
                    /\ written' = 0
    ]_vars

\* play() on a slot of a started engine has failed on the header of its source
C6_Witness ==
    /\ Called("play")
    /\ call.ret = "false"
    /\ call.started
    /\ call.args.stream # NullStream
    /\ call.args.parseWavHeader
    /\ call.before[call.track] = "Playing"
    /\ isPlaying(Machine, call.track)

\* C7 (as claimed): a start() in which the allocation of a decode buffer
\* fails returns false with no decode buffer allocated, the driver
\* uninstalled and the engine not started.
C7_FailedStartReleasesAll ==
    (call.op = "start" /\ ~call.started /\ call.args.installOk /\ call.args.setPinOk
        /\ call.args.failAt < MAX_TRACKS) =>
        /\ call.ret = "false"
        /\ ~initialized
        /\ ~i2s
        /\ heap = 0
        /\ \A t \in Track : tracks[t].buffer = NullBuffer

\* C8: tick() on an engine that is not started returns false and changes
\* nothing: no member of the player (mix buffer, tracks and their sources
\* included) changes, no callback is invoked and nothing is written to the
\* output; tick() on a started engine returns true.
C8_TickNeedsStart ==
    [][ call'.op = "tick" =>
          IF initialized
          THEN call'.ret = "true"
          ELSE /\ call'.ret = "false"
               /\ tracks' = tracks
               /\ RestUnchanged
               /\ events' = << >>
               /\ written' = 0
    ]_vars

\* tick() has returned false after a cancel() that ended a playback
C8_Witness ==
    /\ call.op = "tick"
    /\ call.ret = "false"
    /\ ~initialized
    /\ \E t \in Track : tracks[t].stream # NullStream

\* C9 (as claimed, its last part): in every state the decode buffers are
\* allocated exactly when the engine is started.
C9_BuffersIffStarted ==
    \A t \in Track : (tracks[t].buffer # NullBuffer) <=> initialized

\* the track was stopped by the tick just made
StoppedNow(t) ==
    \/ ~tracks'[t].isPlaying
    \/ \E k \in 1 .. Len(events') : events'[k] = Ev(t, TRACK_STOPPED)

\* C10: a tick on a started engine writes the mix buffer to the output once
\* if a track that was playing (not paused) when the tick began was not
\* stopped by this tick, and not at all otherwise.
C10_WritesIffTrackMixed ==
    [][ (call'.op = "tick" /\ initialized) =>
          written' = IF \E t \in Track : isPlaying(Machine, t) /\ ~StoppedNow(t)
                     THEN 1 ELSE 0
    ]_vars

\* a tick has stopped one track, mixed another and written the mix buffer
C10_Witness ==
    /\ call.op = "tick"
    /\ written = 1
    /\ \E t \in Track : call.before[t] = "Playing" /\ ~tracks[t].isPlaying
    /\ \E t \in Track : call.before[t] = "Playing" /\ tracks[t].isPlaying

\* the source supplies a whole buffer of one constant sample from its
\* position on, and the track's byte budget allows reading it
FullBuffer(track) ==
    LET s == track.stream
    IN  /\ s # NullStream
        /\ s.pos >= Len(s.bytes)
        /\ StreamLen(s) - s.pos >= BufferBytes
        /\ (track.dataSize = 0 \/ track.dataSize - track.position >= BufferBytes)

\* that constant sample
ConstantOf(track) == SampleOf(track.stream.fill, track.stream.fill)

\* the tracks the tick just made has mixed: playing when it began, and not
\* stopped by it
MixedTracks == { t \in Track : isPlaying(Machine, t) /\ ~StoppedNow(t) }

RECURSIVE MixSum(_, _, _, _, _)
\* entry i of the mix buffer as the tracks 0 .. t of S add up to it from zero
MixSum(tr, S, i, t, garbage) ==
    IF t < 0 THEN 0
    ELSE LET acc == MixSum(tr, S, i, t - 1, garbage)
         IN  IF t \in S
             THEN MixSample(acc, Sample(tr[t].buffer, i, garbage), tr[t].volume)
             ELSE acc

\* The blocks are constant between their cuts: the first index of every
\* stretch on which the mix buffer and the decode buffers of the tracks of S
\* are all constant; what holds at these indices holds at every index.
MixPieces(mix, tr, S) ==
    LET bytes == UNION { Cuts(tr[t].buffer) : t \in S }
        cuts == Cuts(mix) \cup { c \div SampleSize : c \in bytes }
                    \cup { (c \div SampleSize) + 1 : c \in bytes }
    IN  { i \in {0} \cup cuts : i < mixBufferSize }

\* C11: after a tick in which exactly two tracks are playing, at volume 1.0,
\* each with a source that supplies a full buffer of the constant sample v,
\* every entry of the mix buffer holds 2v; after every tick of a started
\* engine each entry of the mix buffer is the sum, from zero and in track
\* order, of the sample the decode buffer of each mixed track holds at that
\* index, scaled by the track's volume.
C11_MixIsSumOfTracks ==
    [][ (call'.op = "tick" /\ initialized) =>
          /\ \A a, b \in Track :
                (/\ a < b
                 /\ \A t \in Track : isPlaying(Machine, t) <=> t \in {a, b}
                 /\ tracks[a].volume = 100 /\ tracks[b].volume = 100
                 /\ tracks[a].bufferPos >= mixBufferSize
                 /\ tracks[b].bufferPos >= mixBufferSize
                 /\ FullBuffer(tracks[a]) /\ FullBuffer(tracks[b])
                 /\ ConstantOf(tracks[b]) = ConstantOf(tracks[a])) =>
                    mixBuffer' = Block(mixBufferSize, 2 * ConstantOf(tracks[a]))
          /\ \E garbage \in GarbageBytes :
                \A i \in MixPieces(mixBuffer', tracks', MixedTracks) :
                    At(mixBuffer', i) = MixSum(tracks', MixedTracks, i, MAX_TRACKS - 1, garbage)
    ]_vars

\* a tick has mixed two tracks at full volume into a buffer of 2v
C11_Witness ==
    /\ call.op = "tick"
    /\ \E a, b \in Track :
          /\ a < b
          /\ \A t \in Track : call.before[t] = "Playing" <=> t \in {a, b}
          /\ tracks[a].isPlaying /\ tracks[b].isPlaying
          /\ tracks[a].volume = 100 /\ tracks[b].volume = 100
          /\ tracks[a].position = BufferBytes /\ tracks[b].position = BufferBytes
          /\ mixBuffer = Block(mixBufferSize, 2 * SampleOf(1, 1))

\* the prologue of the source is "RIFF" <size> "WAVE"
GoodPrologue ==
    /\ Len(call.prologue) = 12
    /\ TagAt(call.prologue, 0, TagRIFF)
    /\ TagAt(call.prologue, 8, TagWAVE)

\* the chunk is followed in the source by as many bytes as it declares
WellFormed(c) == c.size = U32(c.body)

\* the indices of the first "fmt " chunk and of the first "data" chunk after it
FmtIndex(cs) ==
    CHOOSE f \in 1 .. Len(cs) :
        cs[f].tag = TagFmt /\ \A k \in 1 .. (f - 1) : cs[k].tag # TagFmt

DataIndex(cs) ==
    CHOOSE d \in (FmtIndex(cs) + 1) .. Len(cs) :
        cs[d].tag = TagData /\ \A k \in (FmtIndex(cs) + 1) .. (d - 1) : cs[k].tag # TagData

\* the source holds a "fmt " chunk and after it a "data" chunk
HasFmtThenData(cs) ==
    \E f \in 1 .. Len(cs), d \in 1 .. Len(cs) :
        f < d /\ cs[f].tag = TagFmt /\ cs[d].tag = TagData

RECURSIVE OffsetOf(_, _)
\* the offset in the source of the header of chunk d
OffsetOf(cs, d) == IF d = 1 THEN 12 ELSE OffsetOf(cs, d - 1) + 8 + cs[d - 1].body

\* C12: for a source made of the RIFF/WAVE prologue and chunks, each followed
\* by the bytes it declares, with a "fmt " chunk and after it a "data" chunk,
\* skipWavHeader returns true and leaves the source at the first byte after
\* the header of that "data" chunk; for a source whose bytes 0..3 are not
\* "RIFF", whose bytes 8..11 are not "WAVE", or that holds fewer than 12
\* bytes, it returns false.
C12_ParserFindsSamples ==
    call.op = "skipWavHeader" =>
        /\ (/\ GoodPrologue
            /\ HasFmtThenData(call.chunks)
            /\ \A k \in 1 .. (DataIndex(call.chunks) - 1) : WellFormed(call.chunks[k])) =>
                /\ call.ret = "true"
                /\ call.stream.pos = OffsetOf(call.chunks, DataIndex(call.chunks)) + 8
        /\ ~GoodPrologue => call.ret = "false"

\* the parser has passed a "data" chunk, an odd chunk and the "fmt " chunk
\* and stopped at the samples of the "data" chunk after them
C12_Witness ==
    /\ call.op = "skipWavHeader"
    /\ call.ret = "true"
    /\ GoodPrologue
    /\ Len(call.chunks) = MaxChunks
    /\ call.chunks[1].tag = TagData
    /\ call.chunks[1].body = 3
    /\ call.chunks[2].tag = TagFmt
    /\ call.chunks[2].body = 16
    /\ call.chunks[3].tag = TagData
    /\ call.stream.pos = 12 + (8 + 3) + (8 + 16) + 8

\* C16 (as claimed): skipWavHeader returns on every source, and returns
\* false when the source has a good prologue but no "fmt " chunk, no "data"
\* chunk after the "fmt " chunk, or ends inside a chunk header, whatever
\* lengths its chunks declare.
C16_ParserTerminates ==
    call.op = "skipWavHeader" =>
        /\ call.ret \in {"true", "false"}
        /\ (/\ \A k \in 1 .. Len(call.chunks) : WellFormed(call.chunks[k])
            /\ ~HasFmtThenData(call.chunks)) => call.ret = "false"

\* C13 (as claimed): in every state the paused flag of a track is set only if
\* its playing flag is set; pause() on a Stopped track and resume() on a
\* track that is not Paused change no field of the track.
C13_PausedOnlyIfPlaying ==
    /\ \A t \in Track : tracks[t].isPaused => tracks[t].isPlaying
    /\ (Called("pause") /\ call.before[call.track] = "Stopped" /\ eventCallback # "replay") =>
            budget.idle
    /\ (Called("resume") /\ call.before[call.track] # "Paused" /\ eventCallback # "replay") =>
            budget.idle

\* the bytes the last step read from the source of track t
BytesRead(t) == tracks'[t].stream.pos - tracks[t].stream.pos

\* the callback has called play() for the track during the last step
Replayed(t) == \E k \in 1 .. Len(events') : events'[k] = Ev(t, TRACK_STARTED)

\* C14: a tick reads from the source of a playing track with a byte budget
\* (dataSize > 0) that it neither stops nor sees replayed at most
\* dataSize - position bytes and at most one buffer of bytes, and adds to
\* position exactly the bytes read; after every call
\* position <= dataSize for every track with a budget and the buffer cursor
\* of every track is within [0, mixBufferSize].
C14_RefillWithinBudget ==
    [][ /\ \A t \in Track :
              (call'.op = "tick" /\ isPlaying(Machine, t) /\ tracks[t].dataSize > 0
                  /\ ~StoppedNow(t) /\ ~Replayed(t)) =>
                  /\ tracks'[t].stream = AfterSeek(tracks[t].stream, tracks'[t].stream.pos)
                  /\ BytesRead(t) >= 0
                  /\ BytesRead(t) <= tracks[t].dataSize - tracks[t].position
                  /\ BytesRead(t) <= BufferBytes
                  /\ tracks'[t].position = tracks[t].position + BytesRead(t)
                  /\ tracks'[t].dataSize = tracks[t].dataSize
        /\ \A t \in Track :
              /\ tracks'[t].dataSize > 0 => tracks'[t].position <= tracks'[t].dataSize
              /\ tracks'[t].position >= 0
              /\ tracks'[t].bufferPos >= 0
              /\ tracks'[t].bufferPos <= mixBufferSize
    ]_vars

\* a tick has made the clamped last read of a track's budget
C14_Witness ==
    /\ call.op = "tick"
    /\ \E t \in Track :
          /\ call.before[t] = "Playing"
          /\ tracks[t].isPlaying
          /\ tracks[t].dataSize = BufferBytes + 6
          /\ tracks[t].position = tracks[t].dataSize
          /\ tracks[t].stream.pos < StreamLen(tracks[t].stream)
          /\ tracks[t].bufferPos = mixBufferSize

\* the callback of main.cpp calls play() for the track when a track stops
ReplayedByCallback(t) == eventCallback = "replay" /\ t = 0

\* C15: under repeated ticks every playing track that is not replayed by the
\* callback is eventually stopped or paused; the tick that stops it has read
\* no byte from its source and emits TRACK_STOPPED for it once; a track that
\* is stopped is left stopped by every tick.
C15_PlayingTrackEventuallyStops ==
    /\ \A t \in Track :
          (isPlaying(Machine, t) /\ ~ReplayedByCallback(t))
              ~> (~tracks[t].isPlaying \/ tracks[t].isPaused)
    /\ [][ \A t \in Track :
              (call'.op = "tick" /\ ~ReplayedByCallback(t)) =>
                  /\ (isPlaying(Machine, t) /\ ~tracks'[t].isPlaying) =>
                        /\ BytesRead(t) = 0
                        /\ eventCallback # NULL =>
                              EventsOf(t)' = << Ev(t, TRACK_STOPPED) >>
                  /\ ~tracks[t].isPlaying =>
                        /\ ~tracks'[t].isPlaying
                        /\ EventsOf(t)' = << >>
       ]_vars

\* a tick has stopped a track at the end of its source, which was played
\* without a byte budget
C15_Witness ==
    /\ call.op = "tick"
    /\ \E t \in LiveTracks :
          /\ call.before[t] = "Playing"
          /\ ~tracks[t].isPlaying
          /\ tracks[t].dataSize = 0
          /\ tracks[t].stream.pos = StreamLen(tracks[t].stream)
          /\ EventsOf(t) = << Ev(t, TRACK_STOPPED) >>

\* the samples the last step read into the decode buffer of track t
SamplesRead(t) == (BytesRead(t) + SampleSize - 1) \div SampleSize

\* C17 (as claimed): a tick that mixes one track alone after a refill adds
\* nothing to the entries of the mix buffer beyond the samples the refill
\* read: they hold zero, whatever the decode buffer held there.
C17_OnlyReadSamplesMixed ==
    [][ \A t \in Track :
          (/\ call'.op = "tick"
           /\ MixedTracks = {t}
           /\ ~Replayed(t)
           /\ tracks[t].bufferPos >= mixBufferSize) =>
              \A i \in MixPieces(mixBuffer', tracks', {t}) :
                  i >= SamplesRead(t) => At(mixBuffer', i) = 0
    ]_vars

\* C18 (as claimed): after cancel() has returned true the playing and paused
\* flags of every track are false, and stay false until play() is called,
\* whatever callback is registered.
C18_CancelStopsEveryTrack ==
    [][ /\ (call'.op = "cancel" /\ call'.ret = "true") =>
              \A t \in Track : ~tracks'[t].isPlaying /\ ~tracks'[t].isPaused
        /\ (call'.op \in {"start", "tick"} /\ call.op \in {"cancel", "start"}) =>
              \A t \in Track :
                  /\ tracks'[t].isPlaying => tracks[t].isPlaying
                  /\ tracks'[t].isPaused => tracks[t].isPaused
    ]_vars

\* C19 (as claimed): a play() with a nonzero dataSize argument D that returns
\* true leaves a track with a byte budget, and the tick that follows it reads
\* no more than D bytes from the track's source.
C19_NonzeroSizeBoundsTrack ==
    [][ \A t \in Track :
          (call.op = "play" /\ call.track = t /\ call.ret = "true"
              /\ call.args.dataSize > 0) =>
              /\ tracks[t].dataSize > 0
              /\ (call'.op = "tick" /\ ~Replayed(t)) =>
                    BytesRead(t) <= call.args.dataSize
    ]_vars

\* the last step left every field of track t, its source and the content of
\* its decode buffer as they were
TrackUnchanged(t) == tracks'[t] = tracks[t]

\* a tick leaves the tracks that are not playing as they were, and a call for
\* track i leaves every other track as it was
FrameOfStep ==
    /\ call'.op = "tick" =>
          \A t \in Track : ~isPlaying(Machine, t) => TrackUnchanged(t)
    /\ call'.op \in {"pause", "resume", "stop", "setVolume", "play"} =>
          \A t \in Track : t # call'.track => TrackUnchanged(t)

\* C20 (as claimed): a tick leaves every track that is Paused or Stopped when
\* it begins completely unchanged and reads nothing from its source; pause,
\* resume, stop, setVolume and play on track i change no field of any other
\* track.
C20_OtherTracksUnchanged == [][FrameOfStep]_vars

\* C20 (amended): the same, on an engine with no callback or with a callback
\* that does not call into the player.
C20_OtherTracksUnchangedByCall == [][eventCallback # "replay" => FrameOfStep]_vars

\* a tick has left a track that was paused after its first buffer where it was
C20_Witness ==
    /\ call.op = "tick"
    /\ call.ret = "true"
    /\ eventCallback # "replay"
    /\ \E t \in Track :
          /\ call.before[t] = "Paused"
          /\ isPaused(Machine, t)
          /\ tracks[t].position = BufferBytes
          /\ tracks[t].stream.pos = BufferBytes
          /\ tracks[t].bufferPos = mixBufferSize

=============================================================================
